---- MODULE Spec2Model ----
(***************************************************************************)
(* Model of pybinding/shape.py: the Polygon value object (validated        *)
(* vertices property stored as two float32 coordinate arrays) and the      *)
(* factory functions rectangle, regular_polygon, primitive and             *)
(* translational_symmetry.                                                 *)
(*                                                                         *)
(* Python values are triples <<t, n, e>>:                                  *)
(*   t = "num"  : the number n / 2^e (a dyadic rational, as every Python   *)
(*                int of this size and every binary float is), kept        *)
(*                normalised (e = 0 or n odd) so that equal numbers are    *)
(*                equal triples;                                           *)
(*   t = "none" : None;                                                    *)
(*   t = "bool" : False (n = 0) or True (n = 1).                           *)
(* An exception is a pair <<kind, msg>>.                                   *)
(***************************************************************************)
EXTENDS Integers, Sequences, FiniteSets

VARIABLES
    alive,      \* TRUE once a Polygon object has been returned to the caller
    x,          \* Polygon.x : stored float32 x-coordinates
    y,          \* Polygon.y : stored float32 y-coordinates
    err,        \* exception raised by the last call, or NoError
    op,         \* name of the last call
    nGiven,     \* number of points handed to the last Polygon call / assignment
    assigned,   \* the sequence most recently assigned to vertices with success
    args,       \* arguments of the last factory call
    ret         \* arguments the last factory call handed to the native descriptor

vars == <<alive, x, y, err, op, nGiven, assigned, args, ret>>

(***************************************************************************)
(* Bounds of the model.                                                    *)
(***************************************************************************)
MaxPoints == 4      \* longest vertex sequence handed to Polygon
MaxSide == 4        \* largest small side length handed to rectangle
MaxRadius == 2      \* largest radius handed to regular_polygon
MaxSides == 5       \* largest num_sides handed to regular_polygon
MaxLen == 2         \* largest integer length handed to primitive / translational_symmetry

(***************************************************************************)
(* Python values.                                                          *)
(***************************************************************************)
RECURSIVE Norm(_, _)
Norm(n, e) ==
    IF e > 0 /\ n % 2 = 0 THEN Norm(n \div 2, e - 1)
    ELSE <<"num", n, e>>

Num(n) == Norm(n, 0)
NoneV == <<"none", 0, 0>>
FalseV == <<"bool", 0, 0>>
TrueV == <<"bool", 1, 0>>

TypeOf(v) == v[1]
Numer(v) == v[2]
Expo(v) == v[3]

IsNum(v) == TypeOf(v) = "num"

\* truth value of a Python object: None, False, 0 and 0.0 are falsy
Truthy(v) == TypeOf(v) # "none" /\ Numer(v) # 0

Neg(v) == Norm(0 - Numer(v), Expo(v))
Half(v) == Norm(Numer(v), Expo(v) + 1)
Mul(a, b) == Norm(Numer(a) * Numer(b), Expo(a) + Expo(b))
Max(a, b) == IF a >= b THEN a ELSE b
\* a - b, aligned on the larger exponent
Sub(a, b) ==
    LET e == Max(Expo(a), Expo(b))
    IN  Norm(Numer(a) * 2^(e - Expo(a)) - Numer(b) * 2^(e - Expo(b)), e)
Add(a, b) == Sub(a, Neg(b))

(***************************************************************************)
(* np.float32: round to nearest, ties to even, MantBits significant bits.  *)
(* The exponent range of float32 is not modelled: every value of the model *)
(* lies between 2^-24 and 2^31 in magnitude, or is 0.                      *)
(***************************************************************************)
MantBits == 24

Abs(n) == IF n < 0 THEN 0 - n ELSE n

\* the number of low bits that do not fit a MantBits-bit significand
RECURSIVE ExcessBits(_, _)
ExcessBits(n, k) == IF n < 2^(MantBits + k) THEN k ELSE ExcessBits(n, k + 1)

RoundNearestEven(n) ==
    IF n < 2^MantBits THEN n
    ELSE LET k == ExcessBits(n, 1)
             q == n \div 2^k
             r == n % 2^k
             h == 2^(k - 1)
             up == r > h \/ (r = h /\ q % 2 = 1)
         IN  (IF up THEN q + 1 ELSE q) * 2^k

\* rounding toward zero in place of rounding to nearest
ToFloat32Truncating(v) ==
    LET a == Abs(Numer(v))
        k == IF a < 2^MantBits THEN 0 ELSE ExcessBits(a, 1)
        m == (a \div 2^k) * 2^k
    IN  Norm(IF Numer(v) < 0 THEN 0 - m ELSE m, Expo(v))
\* np.float32(v)
ToFloat32(v) ==
    LET m == RoundNearestEven(Abs(Numer(v)))
    IN  Norm(IF Numer(v) < 0 THEN 0 - m ELSE m, Expo(v))

(***************************************************************************)
(* Exceptions.                                                             *)
(***************************************************************************)
Kind(e) == e[1]

NoError == <<"none", "">>
UnpackError(n) ==
    <<"ValueError", IF n < 2 THEN "not enough values to unpack" ELSE "too many values to unpack">>
SidesError == <<"ValueError", "A polygon must have at least 3 sides">>
ConvertError == <<"TypeError", "float() argument must be a string or a number">>

(***************************************************************************)
(* Polygon.                                                                *)
(***************************************************************************)
MinSides == 3

Min(S) == CHOOSE m \in S : \A k \in S : m <= k

\* zip(*vertices): one tuple per coordinate position, cut to the shortest point
Zip(vertices) ==
    IF Len(vertices) = 0 THEN << >>
    ELSE LET m == Min({Len(vertices[i]) : i \in 1..Len(vertices)})
         IN  [j \in 1..m |-> [i \in 1..Len(vertices) |-> vertices[i][j]]]

\* np.array(seq, dtype=np.float32) raises unless every element is a number
Convertible(seq) == \A i \in 1..Len(seq) : IsNum(seq[i])
AsFloat32Array(seq) == [i \in 1..Len(seq) |-> ToFloat32(seq[i])]

\* Polygon.vertices getter: list(zip(self.x, self.y))
Vertices(xs, ys) ==
    LET m == Min({Len(xs), Len(ys)})
    IN  [i \in 1..m |-> <<xs[i], ys[i]>>]

\* the setter with the arrays converted before the length is checked
SetVerticesConvertFirst(vertices, xs, ys) ==
    LET z == Zip(vertices)
    IN  IF Len(z) # 2
        THEN <<UnpackError(Len(z)), xs, ys>>
        ELSE IF ~Convertible(z[1]) \/ ~Convertible(z[2])
        THEN <<ConvertError, xs, ys>>
        ELSE IF Len(z[1]) < MinSides
        THEN <<SidesError, xs, ys>>
        ELSE <<NoError, AsFloat32Array(z[1]), AsFloat32Array(z[2])>>
\* Polygon.vertices setter on an object whose arrays are xs, ys: the triple
\* <<exception raised, x array left behind, y array left behind>>
SetVertices(vertices, xs, ys) ==
    LET z == Zip(vertices)
    IN  IF Len(z) # 2
        THEN <<UnpackError(Len(z)), xs, ys>>
        ELSE IF Len(z[1]) < MinSides
        THEN <<SidesError, xs, ys>>
        ELSE IF ~Convertible(z[1])
        THEN <<ConvertError, xs, ys>>
        ELSE IF ~Convertible(z[2])
        THEN <<ConvertError, AsFloat32Array(z[1]), ys>>
        ELSE <<NoError, AsFloat32Array(z[1]), AsFloat32Array(z[2])>>

\* the points callers hand in: 2^24 - 1 needs every bit of a float32
\* significand, 2^25 + 3 is no float32 (its neighbours are 2^25 and 2^25 + 4)
GoodPoints == { <<Num(2^24 - 1), Num(1)>>, <<Num(2^25 + 3), Num(0)>> }
\* points one of whose coordinates is None
NonePoints == { <<Num(0), NoneV>>, <<NoneV, Num(0)>> }
\* a point with three coordinates
Point3D == <<Num(0), Num(1), Num(0)>>

RECURSIVE SeqsUpTo(_, _)
SeqsUpTo(S, n) ==
    IF n = 0 THEN { << >> }
    ELSE LET shorter == SeqsUpTo(S, n - 1)
         IN  shorter \cup { Append(s, p) : s \in { t \in shorter : Len(t) = n - 1 }, p \in S }

\* vertex sequences handed to Polygon and to the setter: every sequence of up
\* to MaxPoints good points, those sequences with a None-holding point as
\* their last one, and a triangle of three-dimensional points
VertexInputs ==
    SeqsUpTo(GoodPoints, MaxPoints)
        \cup { Append(s, p) : s \in SeqsUpTo(GoodPoints, MaxPoints - 1), p \in NonePoints }
        \cup { <<Point3D, Point3D, Point3D>> }

Init ==
    /\ alive = FALSE
    /\ x = << >>
    /\ y = << >>
    /\ err = NoError
    /\ op = "init"
    /\ nGiven = 0
    /\ assigned = << >>
    /\ args = << >>
    /\ ret = << >>

\* Polygon(vertices): __init__ runs the setter on a fresh object; the object
\* reaches the caller only if the setter does not raise
Construct(vertices) ==
    /\ ~alive
    /\ \E r \in {SetVertices(vertices, << >>, << >>)} :
        /\ op' = "Polygon"
        /\ nGiven' = Len(vertices)
        /\ err' = r[1]
        /\ alive' = (r[1] = NoError)
        /\ x' = IF r[1] = NoError THEN r[2] ELSE << >>
        /\ y' = IF r[1] = NoError THEN r[3] ELSE << >>
        /\ assigned' = IF r[1] = NoError THEN vertices ELSE assigned
        /\ UNCHANGED <<args, ret>>

\* polygon.vertices = vertices on the existing object
Assign(vertices) ==
    /\ alive
    /\ \E r \in {SetVertices(vertices, x, y)} :
        /\ op' = "vertices"
        /\ nGiven' = Len(vertices)
        /\ err' = r[1]
        /\ x' = r[2]
        /\ y' = r[3]
        /\ assigned' = IF r[1] = NoError THEN vertices ELSE assigned
        /\ UNCHANGED <<alive, args, ret>>

NextPolygon ==
    \/ \E vertices \in VertexInputs : Construct(vertices)
    \/ \E vertices \in VertexInputs : Assign(vertices)

SpecPolygon == Init /\ [][NextPolygon]_vars

(***************************************************************************)
(* Properties of Polygon.                                                  *)
(***************************************************************************)
PolygonCall == op = "Polygon" \/ op = "vertices"

\* the pairs a sequence of points turns into when every coordinate is
\* rounded to float32
RoundedPairs(points) ==
    [i \in 1..Len(points) |-> <<ToFloat32(points[i][1]), ToFloat32(points[i][2])>>]

\* a number a float32 holds exactly: its significand fits 24 bits
FitsFloat32(v) == Numer(v) < 16777216 /\ Numer(v) > -16777216

RECURSIVE OddPart(_)
OddPart(n) == IF n # 0 /\ n % 2 = 0 THEN OddPart(n \div 2) ELSE n

\* an integer that is a float32 value
IsFloat32Int(n) == OddPart(Abs(n)) < 16777216

\* r is a float32 nearest to the integer v: no float32 lies closer to v
NearestFloat32(r, v) ==
    /\ IsNum(r) /\ Expo(r) = 0 /\ IsFloat32Int(Numer(r))
    /\ \A c \in (Numer(v) - 4)..(Numer(v) + 4) :
          IsFloat32Int(c) => Abs(Numer(r) - Numer(v)) <= Abs(c - Numer(v))

\* C1: Polygon(vertices) with fewer than 3 points raises a ValueError and
\* hands no Polygon object to the caller.
C1_FewPointsRejected ==
    (op = "Polygon" /\ nGiven < 3) => (Kind(err) = "ValueError" /\ ~alive)

C1_Witness ==
    op = "Polygon" /\ nGiven = 0 /\ Kind(err) = "ValueError" /\ ~alive

RectangleVerticesReversed(a, b) ==
    LET b1 == IF Truthy(b) THEN b ELSE a
        x0 == Half(a)
        y0 == Half(b1)
    IN  << <<x0, y0>>, <<Neg(x0), y0>>, <<Neg(x0), Neg(y0)>>, <<x0, Neg(y0)>> >>
\* rectangle with `y if y is not None else x`
RectangleVerticesNoneOnly(a, b) ==
    LET b1 == IF b # NoneV THEN b ELSE a
        x0 == Half(a)
        y0 == Half(b1)
    IN  << <<x0, y0>>, <<x0, Neg(y0)>>, <<Neg(x0), Neg(y0)>>, <<Neg(x0), y0>> >>
\* the list rectangle hands to Polygon
RectangleVertices(a, b) ==
    LET b1 == IF Truthy(b) THEN b ELSE a
        x0 == Half(a)
        y0 == Half(b1)
    IN  << <<x0, y0>>, <<x0, Neg(y0)>>, <<Neg(x0), Neg(y0)>>, <<Neg(x0), y0>> >>

\* side lengths callers hand in: small integers, and 2^25 + 6, half of which
\* is no float32
SideInputs == { Num(n) : n \in (0 - MaxSide)..MaxSide } \cup { Num(2^25 + 6) }

\* a call of a factory that builds a Polygon from `vertices`: the object it
\* returns replaces the one the caller held
NewPolygon(vertices) ==
    \E r \in {SetVertices(vertices, << >>, << >>)} :
        /\ nGiven' = Len(vertices)
        /\ err' = r[1]
        /\ alive' = (r[1] = NoError)
        /\ x' = IF r[1] = NoError THEN r[2] ELSE << >>
        /\ y' = IF r[1] = NoError THEN r[3] ELSE << >>
        /\ assigned' = IF r[1] = NoError THEN vertices ELSE << >>

Rectangle(a, b) ==
    /\ op' = "rectangle"
    /\ args' = <<a, b>>
    /\ NewPolygon(RectangleVertices(a, b))
    /\ UNCHANGED ret

NextRectangle ==
    \E a \in SideInputs : \E b \in SideInputs \cup {NoneV} : Rectangle(a, b)

SpecRectangle == Init /\ [][NextRectangle]_vars

(***************************************************************************)
(* Properties of rectangle.                                                *)
(***************************************************************************)
\* the four corners (+-hx, +-hy) in the order the claims give
Corners(hx, hy) ==
    << <<hx, hy>>, <<hx, Neg(hy)>>, <<Neg(hx), Neg(hy)>>, <<Neg(hx), hy>> >>

\* twice the signed area of the closed polygon through vs (shoelace formula,
\* x to the right and y up): negative when vs runs clockwise
RECURSIVE CrossSum(_, _)
CrossSum(vs, i) ==
    IF i > Len(vs) THEN Num(0)
    ELSE LET j == IF i = Len(vs) THEN 1 ELSE i + 1
         IN  Add(Sub(Mul(vs[i][1], vs[j][2]), Mul(vs[j][1], vs[i][2])), CrossSum(vs, i + 1))
SignedArea2(vs) == Numer(CrossSum(vs, 1))

SmallPositive(v) == IsNum(v) /\ Expo(v) = 0 /\ Numer(v) >= 1 /\ Numer(v) <= MaxSide

\* C4 as stated: for a non-falsy y the vertices are exactly the four corners
\* (x/2, y/2), (x/2, -y/2), (-x/2, -y/2), (-x/2, y/2).
C4_ExactCorners ==
    (op = "rectangle" /\ Truthy(args[2])) =>
        Vertices(x, y) = Corners(Half(args[1]), Half(args[2]))

\* C4 amended: for a non-falsy y the vertices are the four corners (x/2, y/2),
\* (x/2, -y/2), (-x/2, -y/2), (-x/2, y/2) in that order, each coordinate
\* rounded to float32 (so exactly those corners whenever x/2 and y/2 are
\* float32 values); for x > 0 and y > 0 that is a clockwise traversal starting
\* in the upper-right quadrant; rectangle(4) gives (2,2), (2,-2), (-2,-2),
\* (-2,2), and rectangle(0) succeeds with four coincident vertices.
C4_RoundedCorners ==
    op = "rectangle" =>
        /\ Truthy(args[2]) =>
             /\ err = NoError /\ alive
             /\ Vertices(x, y) = RoundedPairs(Corners(Half(args[1]), Half(args[2])))
             /\ (FitsFloat32(Half(args[1])) /\ FitsFloat32(Half(args[2]))) =>
                  Vertices(x, y) = Corners(Half(args[1]), Half(args[2]))
        /\ (SmallPositive(args[1]) /\ SmallPositive(args[2])) =>
             /\ SignedArea2(Vertices(x, y)) < 0
             /\ Numer(Vertices(x, y)[1][1]) > 0 /\ Numer(Vertices(x, y)[1][2]) > 0
        /\ (args[1] = Num(4) /\ (args[2] = NoneV \/ args[2] = Num(4))) =>
             Vertices(x, y) = << <<Num(2), Num(2)>>, <<Num(2), Num(-2)>>,
                                 <<Num(-2), Num(-2)>>, <<Num(-2), Num(2)>> >>
        /\ (args[1] = Num(0) /\ args[2] = NoneV) =>
             /\ err = NoError /\ alive
             /\ Vertices(x, y) = [i \in 1..4 |-> <<Num(0), Num(0)>>]

C4_Witness ==
    /\ op = "rectangle" /\ args = <<Num(3), Num(2)>> /\ alive
    /\ Vertices(x, y)[1] = <<Norm(3, 1), Num(1)>>
    /\ Vertices(x, y)[2] = <<Norm(3, 1), Num(-1)>>

\* C5: with y omitted (None) or falsy (0), rectangle(x, y) is the square of
\* side x, the same vertices as rectangle(x, x) returns.
C5_SquareWhenYFalsy ==
    (op = "rectangle" /\ ~Truthy(args[2])) =>
        /\ err = NoError /\ alive
        /\ Vertices(x, y) = RoundedPairs(Corners(Half(args[1]), Half(args[1])))
        /\ \E r \in {SetVertices(RectangleVertices(args[1], args[1]), << >>, << >>)} :
              r[1] = NoError /\ r[2] = x /\ r[3] = y

C5_Witness ==
    /\ op = "rectangle" /\ args = <<Num(3), Num(0)>> /\ alive
    /\ Vertices(x, y)[3] = <<Norm(-3, 1), Norm(-3, 1)>>

(***************************************************************************)
(* regular_polygon.  Angles are counted in ticks, Turn of them to the full *)
(* turn 2*pi.  math.sin is a table of its values at the ticks, rounded to  *)
(* SinBits fractional bits; the sums angle + 2*n*pi/num_sides are exact.   *)
(***************************************************************************)
SinBits == 12
\* 2^SinBits * sin(k * 2*pi / Turn), rounded, for k = 0 .. Turn/4
SinQuarter == <<0, 428, 852, 1266, 1666, 2048, 2408, 2741, 3044, 3314, 3547, 3742, 3896, 4006, 4074, 4096>>
Turn == 4 * (Len(SinQuarter) - 1)

Sin(k) ==
    LET j == k % Turn
        h == Turn \div 2
        f == IF j % h <= h \div 2 THEN j % h ELSE h - (j % h)
        m == SinQuarter[f + 1]
    IN  Norm(IF j < h THEN m ELSE 0 - m, SinBits)
Cos(k) == Sin(k + Turn \div 4)

ZeroDivisionError == <<"ZeroDivisionError", "division by zero">>

\* range(n)
Range(n) == 0..(n - 1)

\* with the step 2 * pi / num_sides computed once, ahead of the loop
AnglesErrorHoisted(num_sides) ==
    IF num_sides = 0 THEN ZeroDivisionError ELSE NoError
\* the exception the comprehension
\*   [angle + 2 * n * pi / num_sides for n in range(num_sides)]
\* raises: it divides once per element of range(num_sides)
AnglesError(num_sides) ==
    IF \E n \in Range(num_sides) : num_sides = 0 THEN ZeroDivisionError ELSE NoError

\* angles[n], in ticks
AngleAt(num_sides, angle, n) == angle + (n * Turn) \div num_sides

\* with sin and cos exchanged
RegularPolygonVerticesCosSin(num_sides, radius, angle) ==
    [i \in 1..Max(num_sides, 0) |->
        <<Mul(radius, Cos(AngleAt(num_sides, angle, i - 1))),
          Mul(radius, Sin(AngleAt(num_sides, angle, i - 1)))>>]
\* the list regular_polygon hands to Polygon
RegularPolygonVertices(num_sides, radius, angle) ==
    [i \in 1..Max(num_sides, 0) |->
        <<Mul(radius, Sin(AngleAt(num_sides, angle, i - 1))),
          Mul(radius, Cos(AngleAt(num_sides, angle, i - 1)))>>]

\* side counts whose angle step is a whole number of ticks
SidesInputs == { n \in -1..MaxSides : n <= 0 \/ Turn % n = 0 }

\* angle offsets callers hand in, in ticks: every third tick of the turn
AngleInputs == { a \in 0..(Turn - 1) : a % 3 = 0 }

\* regular_polygon(num_sides, radius, angle), the angle given in ticks
RegularPolygon(num_sides, radius, angle) ==
    /\ op' = "regular_polygon"
    /\ args' = <<Num(num_sides), radius, Num(angle)>>
    /\ UNCHANGED ret
    /\ IF AnglesError(num_sides) # NoError
       THEN /\ err' = AnglesError(num_sides)
            /\ alive' = FALSE
            /\ x' = << >>
            /\ y' = << >>
            /\ nGiven' = 0
            /\ assigned' = << >>
       ELSE NewPolygon(RegularPolygonVertices(num_sides, radius, angle))

NextRegularPolygon ==
    \E num_sides \in SidesInputs : \E r \in 0..MaxRadius : \E angle \in AngleInputs :
        RegularPolygon(num_sides, Num(r), angle)

SpecRegularPolygon == Init /\ [][NextRegularPolygon]_vars

(***************************************************************************)
(* Properties of regular_polygon.                                          *)
(***************************************************************************)
\* vertex n (from 0) as the claims give it: radius * (sin, cos) of the angle
\* offset plus n steps of 2*pi/num_sides, as float32
VertexOnCircle(num_sides, radius, angle, n) ==
    <<ToFloat32(Mul(radius, Sin(angle + (n * Turn) \div num_sides))),
      ToFloat32(Mul(radius, Cos(angle + (n * Turn) \div num_sides)))>>

\* C8: regular_polygon returns a Polygon of exactly num_sides vertices when
\* num_sides >= 3 and raises a ValueError, and nothing else, when
\* num_sides < 3 (0 and negative values included).
C8_SidesChecked ==
    op = "regular_polygon" =>
        /\ Numer(args[1]) >= 3 =>
             /\ err = NoError /\ alive
             /\ Len(Vertices(x, y)) = Numer(args[1])
             /\ Len(x) = Numer(args[1]) /\ Len(y) = Numer(args[1])
        /\ Numer(args[1]) < 3 => (Kind(err) = "ValueError" /\ ~alive)

C8_Witness ==
    op = "regular_polygon" /\ Numer(args[1]) = 0 /\ Kind(err) = "ValueError" /\ ~alive

OrZero(v) == IF Truthy(v) THEN v ELSE Num(0)

\* the lengths in the order (v3, v2, v1)
PrimitiveLengthsReversed(v1, v2, v3) == <<OrZero(v3), OrZero(v2), OrZero(v1)>>
\* lengths = tuple((v or 0) for v in (v1, v2, v3))
PrimitiveLengths(v1, v2, v3) == <<OrZero(v1), OrZero(v2), OrZero(v3)>>

\* lengths callers hand in: -1 .. MaxLen and 2.5
LengthInputs == { Num(n) : n \in -1..MaxLen } \cup { Norm(5, 1) }

Primitive(v1, v2, v3, nanometers) ==
    /\ op' = "primitive"
    /\ args' = <<v1, v2, v3, nanometers>>
    /\ ret' = <<PrimitiveLengths(v1, v2, v3), nanometers>>
    /\ err' = NoError
    /\ UNCHANGED <<alive, x, y, nGiven, assigned>>

NextPrimitive ==
    \E v1 \in LengthInputs \cup {NoneV} : \E v2 \in LengthInputs \cup {NoneV} :
        \E v3 \in LengthInputs \cup {NoneV} : \E nanometers \in {FalseV, TrueV} :
            Primitive(v1, v2, v3, nanometers)

SpecPrimitive == Init /\ [][NextPrimitive]_vars

\* translational_symmetry's to_cpp_params, with == in place of `is`:
\* 0 == False and 1 == True in Python
ToCppParamsByEquality(value) ==
    IF Numer(value) = 0 THEN Num(-1)
    ELSE IF Numer(value) = 1 /\ Expo(value) = 0 THEN Num(0)
    ELSE value
\* translational_symmetry's to_cpp_params
ToCppParams(value) ==
    IF value = FalseV THEN Num(-1)
    ELSE IF value = TrueV THEN Num(0)
    ELSE value

TranslationalSymmetry(a1, a2, a3) ==
    /\ op' = "translational_symmetry"
    /\ args' = <<a1, a2, a3>>
    /\ ret' = << <<ToCppParams(a1), ToCppParams(a2), ToCppParams(a3)>> >>
    /\ err' = NoError
    /\ UNCHANGED <<alive, x, y, nGiven, assigned>>

SymmetryInputs == { FalseV, TrueV, Norm(5, 1) } \cup { Num(n) : n \in 0..MaxLen }

NextTranslational ==
    \E a1 \in SymmetryInputs : \E a2 \in SymmetryInputs : \E a3 \in SymmetryInputs :
        TranslationalSymmetry(a1, a2, a3)

SpecTranslational == Init /\ [][NextTranslational]_vars

(***************************************************************************)
(* Properties of primitive and translational_symmetry.                     *)
(***************************************************************************)
\* C7: primitive hands the native descriptor the three lengths in the order
\* (v1, v2, v3), 0 for a None direction and a non-zero length unchanged,
\* with the nanometers flag as given; primitive() gives (0, 0, 0), False.
C7_PrimitiveLengths ==
    op = "primitive" =>
        /\ Len(ret[1]) = 3
        /\ \A i \in 1..3 :
              /\ args[i] = NoneV => ret[1][i] = Num(0)
              /\ (IsNum(args[i]) /\ Numer(args[i]) # 0) => ret[1][i] = args[i]
        /\ ret[2] = args[4]
        /\ args = <<NoneV, NoneV, NoneV, FalseV>> =>
              ret = << <<Num(0), Num(0), Num(0)>>, FalseV >>

C7_Witness ==
    /\ op = "primitive" /\ args = <<NoneV, Num(2), Norm(5, 1), TrueV>>
    /\ ret = << <<Num(0), Num(2), Norm(5, 1)>>, TrueV >>

\* C6: translational_symmetry encodes each direction on its own, False as
\* -1, True as 0 and any other value unchanged, in the order (a1, a2, a3);
\* (False, True, 2.5) gives (-1, 0, 2.5) and the defaults give (0, 0, 0).
C6_TriStateEncoding ==
    op = "translational_symmetry" =>
        /\ Len(ret[1]) = 3
        /\ \A i \in 1..3 :
              /\ args[i] = FalseV => ret[1][i] = Num(-1)
              /\ args[i] = TrueV => ret[1][i] = Num(0)
              /\ (args[i] # FalseV /\ args[i] # TrueV) => ret[1][i] = args[i]
        /\ args = <<FalseV, TrueV, Norm(5, 1)>> =>
              ret[1] = <<Num(-1), Num(0), Norm(5, 1)>>
        /\ args = <<TrueV, TrueV, TrueV>> => ret[1] = <<Num(0), Num(0), Num(0)>>

C6_Witness ==
    /\ op = "translational_symmetry" /\ args = <<FalseV, TrueV, Norm(5, 1)>>
    /\ ret[1] = <<Num(-1), Num(0), Norm(5, 1)>>

====
